---- MODULE Spec2Model ----
(***************************************************************************)
(* Model of make.py: the orchestration in main, the properties reader,     *)
(* the image locator, the package fetcher and extractor, and the           *)
(* mount/copy phase with its try/finally.                                   *)
(***************************************************************************)
EXTENDS Integers, Sequences, FiniteSets, TLC

\* ---------------------------------------------------------------- bounds
\* --rev is drawn from 0..MaxRev
MaxRev == 2
\* the text of a Pkg.Revision value has at most MaxLen characters
MaxLen == 2

\* ------------------------------------------------------------ input sets
\* Python's None for an argument / environment variable that is not set
None == "<None>"
\* candidate values of --sdk, ANDROID_SDK_HOME, ANDROID_SDK_ROOT
SdkArgs == {None, "", "/sdk/arg"}
HomeVals == {None, "", "/sdk/home"}
RootVals == {None, "", "/sdk/root"}
Revs == 0..MaxRev
Apis == {30}
Abis == {"arm64-v8a"}
Versions == {-1, 1}

\* characters a property value is made of; "x" stands for any non-digit
Chars == {"0", "1", "x"}
DigitVal == ("0" :> 0) @@ ("1" :> 1)
Texts == UNION {[1..n -> Chars] : n \in 0..MaxLen}

\* a source.properties file: missing, or present with or without the key
NoFile == [exists |-> FALSE, haskey |-> FALSE, val |-> <<>>]
PropFiles ==
    {NoFile, [exists |-> TRUE, haskey |-> FALSE, val |-> <<>>]}
    \cup {[exists |-> TRUE, haskey |-> TRUE, val |-> t] : t \in Texts}

\* ------------------------------------------------------- pure functions
\* int(str): the value of a decimal literal
RECURSIVE IntVal(_)
IntVal(s) ==
    IF Len(s) = 0 THEN 0
    ELSE IntVal(SubSeq(s, 1, Len(s) - 1)) * 10 + DigitVal[s[Len(s)]]

IsDigits(s) == Len(s) > 0 /\ \A i \in 1..Len(s) : s[i] \in DOMAIN DigitVal

\* f"{rev:02d}": the decimal digits of rev, zero-padded to two
RECURSIVE Digits(_)
Digits(n) == IF n < 10 THEN <<n>> ELSE Append(Digits(n \div 10), n % 10)

Fmt02d(n) == IF n < 10 THEN <<0, n>> ELSE Digits(n)

\* load_source_properties(mod, dir): the mapping read, or the exception.
\* kind "dir" opens through the builtin open, kind "zip" through ZipFile.open
load_source_properties(kind, file) ==
    IF file.exists
    THEN [exc |-> "none", haskey |-> file.haskey, val |-> file.val]
    ELSE IF kind = "dir"
         THEN [exc |-> "none", haskey |-> FALSE, val |-> <<>>]
         ELSE [exc |-> "KeyError", haskey |-> FALSE, val |-> <<>>]

\* int(prop.get('Pkg.Revision', 0))
PkgRevision(prop) ==
    IF ~prop.haskey THEN [exc |-> "none", rev |-> 0]
    ELSE IF IsDigits(prop.val) THEN [exc |-> "none", rev |-> IntVal(prop.val)]
    ELSE [exc |-> "ValueError", rev |-> 0]

Raise(e) == [exc |-> e, img |-> "none", rev |-> 0]
Return(i, r) == [exc |-> "none", img |-> i, rev |-> r]

\* lookup_system_image(sdk, abi, api) on a directory holding `file`, where
\* isfile tells whether system.img is in that directory
lookup_system_image(file, isfile) ==
    LET prop == load_source_properties("dir", file)
        r == PkgRevision(prop)
    IN  IF prop.exc # "none" THEN Raise(prop.exc)
        ELSE IF r.exc # "none" THEN Raise(r.exc)
        ELSE Return(IF isfile THEN "sdk" ELSE "none", r.rev)

\* extract_system_package(package, abi, dst) on an archive holding `file`,
\* where member tells whether <abi>/system.img is in the archive and isfile
\* whether <dst>/<abi>/system.img is on disk already
extract_system_package(file, member, isfile) ==
    LET prop == load_source_properties("zip", file)
        r == PkgRevision(prop)
    IN  IF prop.exc # "none" THEN Raise(prop.exc)
        ELSE IF r.exc # "none" THEN Raise(r.exc)
        ELSE IF r.rev # 0 /\ ~isfile
             THEN IF member THEN Return("dst", r.rev) ELSE Raise("KeyError")
             ELSE IF isfile THEN Return("dst", r.rev) ELSE Return("none", r.rev)

\* a resolution that consults ANDROID_SDK_ROOT before ANDROID_SDK_HOME
ResolveSdk_RootFirst(a, h, r) ==
    IF a # None THEN a ELSE IF r # None THEN r ELSE h

\* main, lines 127-130: args.sdk after the two getenv fallbacks
ResolveSdk(a, h, r) == IF a # None THEN a ELSE IF h # None THEN h ELSE r

\* main, lines 127-130: the environment variables read
Consulted(a, h) ==
    IF a # None THEN {}
    ELSE IF h # None THEN {"ANDROID_SDK_HOME"}
    ELSE {"ANDROID_SDK_HOME", "ANDROID_SDK_ROOT"}

\* main, line 136: the SDK has no usable image
NoImageInSdk(i, r) == r = 0 \/ i = "none"

\* a check that never sees a conflict
Conflicts_Never(want, r) == FALSE

\* main, line 139: the SDK image conflicts with the requested revision
Conflicts(want, r) == want # 0 /\ want # r

\* a check that forgets to compare the revisions
ExtractFailed_ImgOnly(want, i, r) == i = "none"

\* main, line 156: the download/extract result is rejected
ExtractFailed(want, i, r) == want # r \/ i = "none"

\* ---------------------------------------------------------------- state
VARIABLES
    argSdk, envHome, envRoot,   \* --sdk and the two environment variables
    reqRev,                     \* --rev as given on the command line
    abi, api, version,          \* --abi, --api, --version
    sdk,                        \* args.sdk
    consulted,                  \* environment variables read by main
    argsRev,                    \* args.rev
    img, rev,                   \* main's locals img and rev
    ver,                        \* the <rev> digits of main's local ver
    pc,                         \* main's position
    call,                       \* the last helper call: inputs and result
    package,                    \* the archive name built by the fetcher
    out,                        \* messages printed
    log,                        \* external operations attempted, in order
    exit, exc,                  \* how the run ended
    dst,                        \* main's local dst: the output directory
    mountImg,                   \* the image passed to mount_img_and_copy
    mkdir, dirExists,           \* mount_img_and_copy's mkdir; <dst>/mount
    mounted,                    \* the image is mounted on <dst>/mount
    tempdir,                    \* files in the APEX extraction directory
    cpIdx,                      \* next copy of copy_from_apex
    outFiles,                   \* files in the output directory
    copied,                     \* files copied out of the extracted APEX
    pending                     \* exception raised inside the try block

mainVars == <<argSdk, envHome, envRoot, reqRev, abi, api, version, sdk,
              consulted, argsRev, img, rev, ver, pc, call, package, out,
              log, exit, exc>>

mountVars == <<dst, mountImg, mkdir, dirExists, mounted, tempdir, cpIdx,
               outFiles, copied, pending>>

vars == <<mainVars, mountVars>>

NoCall == [fn |-> "none", file |-> NoFile, member |-> FALSE,
           isfile |-> FALSE, ret |-> Return("none", 0)]
NoPackage == [abi |-> "", api |-> 0, rev |-> <<>>]
NoDst == [ver |-> <<>>, abi |-> ""]

Init ==
    /\ argSdk \in SdkArgs /\ envHome \in HomeVals /\ envRoot \in RootVals
    /\ reqRev \in Revs /\ abi \in Abis /\ api \in Apis
    /\ version \in Versions
    /\ sdk = argSdk
    /\ consulted = {}
    /\ argsRev = reqRev
    /\ img = "unbound" /\ rev = 0
    /\ ver = <<>>
    /\ pc = "parse"
    /\ call = NoCall
    /\ package = NoPackage
    /\ out = <<>>
    /\ log = <<>>
    /\ exit = "running" /\ exc = "none"
    /\ dst = NoDst
    /\ mountImg = "none"
    /\ mkdir = FALSE /\ dirExists = FALSE
    /\ mounted = FALSE
    /\ tempdir = {}
    /\ cpIdx = 1
    /\ outFiles = {}
    /\ copied = {}
    /\ pending = "none"

\* an uncaught exception ends the run with a traceback
Uncaught(e) == exit' = "exception" /\ exc' = e /\ pc' = "end"

\* sys.exit(1)
SysExit1 == exit' = "exit1" /\ exc' = "none" /\ pc' = "end"

Running == exit' = exit /\ exc' = exc

\* lines 126-134
ResolveSdkRoot ==
    /\ pc = "parse"
    /\ sdk' = ResolveSdk(argSdk, envHome, envRoot)
    /\ consulted' = Consulted(argSdk, envHome)
    /\ pc' = IF sdk' # None THEN "lookup" ELSE "checkrev"
    /\ UNCHANGED <<argSdk, envHome, envRoot, reqRev, abi, api, version,
                   argsRev, img, rev, ver, call, package, out, log, exit, exc>>
    /\ UNCHANGED mountVars

\* line 135: the call of lookup_system_image
Lookup ==
    /\ pc = "lookup"
    /\ \E file \in PropFiles, isfile \in BOOLEAN :
         LET ret == lookup_system_image(file, isfile) IN
         /\ call' = [fn |-> "lookup_system_image", file |-> file,
                     member |-> FALSE, isfile |-> isfile, ret |-> ret]
         /\ IF ret.exc # "none"
            THEN Uncaught(ret.exc) /\ UNCHANGED <<img, rev>>
            ELSE /\ img' = ret.img /\ rev' = ret.rev
                 /\ pc' = "sdkcheck" /\ Running
    /\ UNCHANGED <<argSdk, envHome, envRoot, reqRev, abi, api, version, sdk,
                   consulted, argsRev, ver, package, out, log>>
    /\ UNCHANGED mountVars

\* lines 136-143
CheckSdkImage ==
    /\ pc = "sdkcheck"
    /\ IF NoImageInSdk(img, rev)
       THEN /\ out' = Append(out, "No system image in SDK")
            /\ img' = "none" /\ argsRev' = argsRev
       ELSE IF Conflicts(argsRev, rev)
       THEN /\ out' = Append(out, "Required system image revision differs")
            /\ img' = "none" /\ argsRev' = argsRev
       ELSE /\ out' = out /\ img' = img /\ argsRev' = rev
    /\ pc' = "checkrev"
    /\ call' = NoCall
    /\ UNCHANGED <<argSdk, envHome, envRoot, reqRev, abi, api, version, sdk,
                   consulted, rev, ver, package, log, exit, exc>>
    /\ UNCHANGED mountVars

\* lines 145-151
CheckRev ==
    /\ pc = "checkrev"
    /\ IF img = "unbound"
       THEN Uncaught("UnboundLocalError") /\ UNCHANGED <<out, ver>>
       ELSE IF img = "none" /\ argsRev = 0
       THEN /\ out' = Append(out, "Please provide system image revision")
            /\ SysExit1 /\ UNCHANGED ver
       ELSE /\ ver' = Fmt02d(argsRev)
            /\ pc' = IF img = "none" THEN "download" ELSE "mount"
            /\ Running /\ UNCHANGED out
    /\ UNCHANGED <<argSdk, envHome, envRoot, reqRev, abi, api, version, sdk,
                   consulted, argsRev, img, rev, call, package, log>>
    /\ UNCHANGED mountVars

mainRest == <<argSdk, envHome, envRoot, reqRev, abi, api, version, sdk,
              consulted, argsRev, ver>>

\* download_system_package, line 98: the archive's file name
PackageName(a, l, r) == [abi |-> a, api |-> l, rev |-> Fmt02d(r)]

\* lines 152-153 and 97-104: the fetcher; the archive is cached or fetched
Download ==
    /\ pc = "download"
    /\ package' = PackageName(abi, api, argsRev)
    /\ out' = Append(out, "Downloading package...")
    /\ \E cached \in BOOLEAN, ok \in BOOLEAN :
         IF cached
         THEN log' = log /\ pc' = "extract" /\ Running
         ELSE /\ log' = Append(log, "urlopen")
              /\ IF ok THEN pc' = "extract" /\ Running
                 ELSE Uncaught("URLError")
    /\ UNCHANGED <<mainRest, img, rev, call>>
    /\ UNCHANGED mountVars

\* lines 154-155: the call of extract_system_package
Extract ==
    /\ pc = "extract"
    /\ out' = Append(out, "Extracting package...")
    /\ \E file \in PropFiles, member \in BOOLEAN, isfile \in BOOLEAN :
         LET ret == extract_system_package(file, member, isfile)
             r == PkgRevision(load_source_properties("zip", file))
             \* line 112 is reached: zip.extract is attempted
             tried == file.exists /\ r.exc = "none" /\ r.rev # 0 /\ ~isfile
         IN
         /\ call' = [fn |-> "extract_system_package", file |-> file,
                     member |-> member, isfile |-> isfile, ret |-> ret]
         /\ log' = IF tried THEN Append(log, "zip.extract") ELSE log
         /\ IF ret.exc # "none"
            THEN Uncaught(ret.exc) /\ UNCHANGED <<img, rev>>
            ELSE /\ img' = ret.img /\ rev' = ret.rev
                 /\ pc' = "extcheck" /\ Running
    /\ UNCHANGED <<mainRest, package>>
    /\ UNCHANGED mountVars

\* lines 156-158
CheckExtract ==
    /\ pc = "extcheck"
    /\ IF ExtractFailed(argsRev, img, rev)
       THEN /\ out' = Append(out, "Download/Extract system package failed")
            /\ SysExit1
       ELSE out' = out /\ pc' = "mount" /\ Running
    /\ call' = NoCall
    /\ UNCHANGED <<mainRest, img, rev, package, log>>
    /\ UNCHANGED mountVars

\* ------------------------------------------------- mount_img_and_copy
\* a try without its finally: the exception leaves the call at once
OnRaise_NoFinally == "mountret"

\* lines 60 and 70: where control goes when a statement of the try raises
OnRaise == "finally"

\* copying straight into dst
ApexDst_Flat == <<>>

\* line 69: the directory, below dst, the APEX files are copied into
ApexDst == <<"system">>

\* lines 31-39: the copy2 calls of copy_from_apex, in order
CopyPlan ==
    << [dst |-> <<"bin">>, src |-> <<"bin">>, f |-> "linker64"],
       [dst |-> <<"lib64">>, src |-> <<"lib64", "bionic">>, f |-> "libc.so"],
       [dst |-> <<"lib64">>, src |-> <<"lib64", "bionic">>, f |-> "libm.so"],
       [dst |-> <<"lib64">>, src |-> <<"lib64", "bionic">>, f |-> "libdl.so"] >>

\* files the extraction utility may leave in its destination directory
ApexFiles == {Append(CopyPlan[i].src, CopyPlan[i].f) : i \in 1..Len(CopyPlan)}

mainKept == <<mainRest, img, rev, call, package, exit, exc>>

\* lines 160-164: main enters mount_img_and_copy, which makes <dst>/mount
MountMkdir ==
    /\ pc = "mount"
    /\ out' = Append(out, "Mounting image and copying...")
    /\ dst' = [ver |-> ver, abi |-> abi]
    /\ mountImg' = img
    /\ \E isdir \in BOOLEAN, ok \in BOOLEAN :
         /\ mkdir' = ~isdir
         /\ IF isdir
            THEN /\ log' = Append(log, "isdir")
                 /\ dirExists' = TRUE /\ pending' = pending
                 /\ pc' = "mountrun"
            ELSE /\ log' = Append(Append(log, "isdir"), "makedirs")
                 /\ dirExists' = ok
                 /\ pending' = IF ok THEN pending ELSE "OSError"
                 /\ pc' = IF ok THEN "mountrun" ELSE OnRaise
    /\ UNCHANGED <<mainKept, mounted, tempdir, cpIdx, outFiles, copied>>

\* line 66: sudo mount; a failing mount command does not raise
MountRun ==
    /\ pc = "mountrun"
    /\ log' = Append(log, "mount")
    /\ \E o \in {"ok", "fail", "raise"} :
         /\ mounted' = (o = "ok")
         /\ pending' = IF o = "raise" THEN "OSError" ELSE pending
         /\ pc' = IF o = "raise" THEN OnRaise ELSE "copyimg"
    /\ UNCHANGED <<mainKept, out, dst, mountImg, mkdir, dirExists, tempdir,
                   cpIdx, outFiles, copied>>

\* lines 68 and 53-56
CopyFromImg ==
    /\ pc = "copyimg"
    /\ log' = Append(log, "ld.config.txt")
    /\ outFiles' = outFiles \cup {<<"linkerconfig", "ld.config.txt">>}
    /\ pc' = "deapex"
    /\ UNCHANGED <<mainKept, out, dst, mountImg, mkdir, dirExists, mounted,
                   tempdir, cpIdx, copied, pending>>

\* lines 69 and 42-48: the extraction utility fills the temporary directory
\* or raises; the APEX can only be read below a mounted or pre-existing
\* mount directory
RunExtract ==
    /\ pc = "deapex"
    /\ log' = Append(log, "RunExtract")
    /\ \/ /\ mounted \/ ~mkdir
          /\ \E S \in SUBSET ApexFiles : tempdir' = S
          /\ cpIdx' = 1
          /\ pending' = pending
          /\ pc' = "copyapex"
       \/ /\ tempdir' = {}
          /\ cpIdx' = cpIdx
          /\ pending' = "DeapexerError"
          /\ pc' = OnRaise
    /\ UNCHANGED <<mainKept, out, dst, mountImg, mkdir, dirExists, mounted,
                   outFiles, copied>>

\* lines 50 and 26-39: one copy2 of copy_from_apex; the temporary directory
\* is removed when the with block is left
CopyApexFile ==
    /\ pc = "copyapex"
    /\ log' = Append(log, "copy2")
    /\ LET step == CopyPlan[cpIdx]
           from == Append(step.src, step.f)
           to == Append(ApexDst \o step.dst, step.f)
       IN  IF from \in tempdir
           THEN /\ outFiles' = outFiles \cup {to}
                /\ copied' = copied \cup {from}
                /\ pending' = pending
                /\ IF cpIdx = Len(CopyPlan)
                   THEN cpIdx' = cpIdx /\ tempdir' = {} /\ pc' = "finally"
                   ELSE cpIdx' = cpIdx + 1 /\ tempdir' = tempdir /\ pc' = pc
           ELSE /\ pending' = "FileNotFoundError"
                /\ tempdir' = {}
                /\ pc' = OnRaise
                /\ UNCHANGED <<outFiles, copied, cpIdx>>
    /\ UNCHANGED <<mainKept, out, dst, mountImg, mkdir, dirExists, mounted>>

\* line 71: sudo umount; a failing umount command does not raise
Umount ==
    /\ pc = "finally"
    /\ log' = Append(log, "umount")
    /\ \E o \in {"ok", "fail", "raise"} :
         /\ mounted' = IF o = "ok" THEN FALSE ELSE mounted
         /\ pending' = IF o = "raise" THEN "OSError" ELSE pending
         /\ pc' = IF o # "raise" /\ mkdir THEN "rmdir" ELSE "mountret"
    /\ UNCHANGED <<mainKept, out, dst, mountImg, mkdir, dirExists, tempdir,
                   cpIdx, outFiles, copied>>

\* lines 72-73: os.rmdir of the mount directory the call made
Rmdir ==
    /\ pc = "rmdir"
    /\ log' = Append(log, "rmdir")
    /\ IF dirExists /\ ~mounted
       THEN dirExists' = FALSE /\ pending' = pending
       ELSE dirExists' = dirExists /\ pending' = "OSError"
    /\ pc' = "mountret"
    /\ UNCHANGED <<mainKept, out, dst, mountImg, mkdir, mounted, tempdir,
                   cpIdx, outFiles, copied>>

mountKept == <<dst, mountImg, mkdir, dirExists, mounted, tempdir, cpIdx,
               copied, pending>>

\* lines 162-165: mount_img_and_copy returns to main or its exception
\* propagates
MountReturn ==
    /\ pc = "mountret"
    /\ IF pending # "none"
       THEN Uncaught(pending) /\ out' = out
       ELSE /\ out' = Append(out, "Successfully copied")
            /\ exc' = exc
            /\ IF version >= 0
               THEN pc' = "render" /\ exit' = exit
               ELSE pc' = "end" /\ exit' = "ok"
    /\ UNCHANGED <<mainRest, img, rev, call, package, log, outFiles>>
    /\ UNCHANGED mountKept

\* ------------------------------------------------------------ packaging
\* lines 166-169: the two templates are rendered into dst
RenderTemplates ==
    /\ pc = "render"
    /\ out' = Append(out, "Generating NuGet package...")
    /\ log' = Append(log, "render")
    /\ \E ok \in BOOLEAN :
         IF ok
         THEN /\ outFiles' = outFiles \cup {<<"README.md">>,
                                           <<"android-exe-launcher.nuspec">>}
              /\ pc' = "nuget" /\ Running
         ELSE outFiles' = outFiles /\ Uncaught("KeyError")
    /\ UNCHANGED <<mainRest, img, rev, call, package>>
    /\ UNCHANGED mountKept

\* lines 171-175: nuget.exe is cached or fetched
FetchNuget ==
    /\ pc = "nuget"
    /\ \E cached \in BOOLEAN, ok \in BOOLEAN :
         IF cached
         THEN log' = log /\ pc' = "pack" /\ Running
         ELSE /\ log' = Append(log, "urlopen nuget")
              /\ IF ok THEN pc' = "pack" /\ Running
                 ELSE Uncaught("URLError")
    /\ UNCHANGED <<mainRest, img, rev, call, package, out, outFiles>>
    /\ UNCHANGED mountKept

\* line 177: wine64 nuget pack, then main returns
NugetPack ==
    /\ pc = "pack"
    /\ log' = Append(log, "nuget pack")
    /\ pc' = "end" /\ exit' = "ok" /\ exc' = exc
    /\ UNCHANGED <<mainRest, img, rev, call, package, out, outFiles>>
    /\ UNCHANGED mountKept

Next ==
    \/ ResolveSdkRoot
    \/ Lookup
    \/ CheckSdkImage
    \/ CheckRev
    \/ Download
    \/ Extract
    \/ CheckExtract
    \/ MountMkdir
    \/ MountRun
    \/ CopyFromImg
    \/ RunExtract
    \/ CopyApexFile
    \/ Umount
    \/ Rmdir
    \/ MountReturn
    \/ RenderTemplates
    \/ FetchNuget
    \/ NugetPack

Spec == Init /\ [][Next]_vars
\* ------------------------------------------------------------ properties
Ended == exit # "running"
Has(s, e) == \E i \in 1..Len(s) : s[i] = e
Count(s, e) == Cardinality({i \in 1..Len(s) : s[i] = e})

WarnNoImage == "No system image in SDK"
WarnConflict == "Required system image revision differs"
AskRevision == "Please provide system image revision"

\* C1: a run with no SDK root resolved and a nonzero --rev does not end
\* before the fetcher was reached for <abi>-<api>_r<rev two-digit>.zip
C1_NoSdkReachesFetcher ==
    (Ended /\ argSdk = None /\ envHome = None /\ envRoot = None
       /\ reqRev # 0)
    => package = PackageName(abi, api, reqRev)

\* C2: a run with no usable image (SDK root unknown, or the locator found
\* no image or revision 0) and --rev 0 ends in the diagnostic exit: the
\* message is printed, the status is 1 and no external step was performed
C2_NoRevisionDiagnosticExit ==
    (Ended /\ reqRev = 0 /\ (sdk = None \/ Has(out, WarnNoImage)))
    => /\ exit = "exit1"
       /\ Has(out, AskRevision)
       /\ log = <<>>
       /\ package = NoPackage

TryPcs == {"mountrun", "copyimg", "deapex", "copyapex", "finally"}
AfterFinallyPcs == {"rmdir", "mountret", "render", "nuget", "pack", "end"}
TryOps == {"makedirs", "mount", "ld.config.txt", "RunExtract", "copy2"}
PackOps == {"render", "urlopen nuget", "nuget pack"}

\* C3: every call of mount_img_and_copy attempts the unmount exactly once,
\* after the mount attempt and the copy steps that ran, on every exit path;
\* when the try block raised, the unmount comes before the exception ends
\* the run and no packaging step runs
C3_UnmountExactlyOnce ==
    /\ (dst = NoDst \/ pc \in TryPcs) => Count(log, "umount") = 0
    /\ (dst # NoDst /\ pc \in AfterFinallyPcs) => Count(log, "umount") = 1
    /\ \A i \in 1..Len(log) : \A j \in 1..Len(log) :
         (i < j /\ log[i] = "umount") => log[j] \notin TryOps
    /\ (pending # "none" /\ Ended)
         => /\ exit = "exception" /\ exc = pending
            /\ \A i \in 1..Len(log) : log[i] \notin PackOps

C3_Witness ==
    /\ Ended /\ pending = "FileNotFoundError"
    /\ Has(log, "copy2") /\ Count(log, "umount") = 1

RevisionZero(file) ==
    file.exists /\ (~file.haskey \/ (IsDigits(file.val) /\ IntVal(file.val) = 0))

\* C4: extract_system_package returns (none, 0) whenever the archive's
\* properties give revision 0, whatever the archive holds and whether or
\* not <dst>/<abi>/system.img is on disk already
C4_RevisionZeroGivesNone ==
    (call.fn = "extract_system_package" /\ RevisionZero(call.file))
    => call.ret = Return("none", 0)

\* C5: when source.properties does not exist, load_source_properties raises
\* nothing, for a directory and for an archive, and the caller obtains
\* revision 0
C5_MissingFileGivesRevisionZero ==
    (call.fn # "none" /\ ~call.file.exists)
    => (call.ret.exc = "none" /\ call.ret.rev = 0)

\* C6: the revision read is the integer value of Pkg.Revision when it
\* parses, and 0, without an error, when the key is absent or its value
\* does not parse
C6_RevisionDefaultsToZero ==
    (call.fn # "none" /\ call.file.exists)
    => /\ (call.file.haskey /\ IsDigits(call.file.val) /\ call.ret.exc = "none")
            => call.ret.rev = IntVal(call.file.val)
       /\ (~call.file.haskey \/ ~IsDigits(call.file.val))
            => (call.ret.exc = "none" /\ call.ret.rev = 0)

\* the mount/copy phase ran to its end and raised nothing
CompletedOk ==
    /\ dst # NoDst /\ pending = "none"
    /\ pc \in {"mountret", "render", "nuget", "pack", "end"}

ApexSources ==
    { <<"bin", "linker64">>, <<"lib64", "bionic", "libc.so">>,
      <<"lib64", "bionic", "libm.so">>, <<"lib64", "bionic", "libdl.so">> }

Empty(x) == x = None \/ x = ""

\* C8 as stated: the SDK root is the first non-empty value among --sdk,
\* ANDROID_SDK_HOME and ANDROID_SDK_ROOT; an unset or empty candidate is
\* skipped, and the environment is consulted only when --sdk gives no value
C8_FirstNonEmptyWins ==
    pc # "parse"
    => /\ ~Empty(argSdk) => (sdk = argSdk /\ consulted = {})
       /\ (Empty(argSdk) /\ ~Empty(envHome)) => sdk = envHome
       /\ (Empty(argSdk) /\ Empty(envHome) /\ ~Empty(envRoot))
            => sdk = envRoot

\* C8 amended: the SDK root is the first value that is set among --sdk,
\* ANDROID_SDK_HOME and ANDROID_SDK_ROOT; only an unset candidate is
\* skipped, an empty string is taken as the SDK root, and the environment
\* is consulted only when --sdk is not given
C8_FirstSetWins ==
    pc # "parse"
    => /\ argSdk # None => (sdk = argSdk /\ consulted = {})
       /\ (argSdk = None /\ envHome # None)
            => (sdk = envHome /\ consulted = {"ANDROID_SDK_HOME"})
       /\ (argSdk = None /\ envHome = None)
            => /\ sdk = envRoot
               /\ consulted = {"ANDROID_SDK_HOME", "ANDROID_SDK_ROOT"}

C8_Witness ==
    /\ pc = "lookup" /\ argSdk = None /\ envHome = ""
    /\ envRoot = "/sdk/root" /\ sdk = ""

\* C9: when the locator finds system.img with a nonzero revision r and
\* --rev is nonzero and differs from r, main discards the SDK image, warns,
\* keeps the requested revision, and goes on to the fetcher with the
\* requested revision; the SDK image is never mounted in that run
C9_ConflictingSdkImageDiscarded ==
    /\ [][ (pc = "sdkcheck" /\ img = "sdk" /\ rev # 0
              /\ reqRev # 0 /\ reqRev # rev)
           => /\ img' = "none" /\ argsRev' = reqRev
              /\ out' = Append(out, WarnConflict)
              /\ pc' = "checkrev" ]_vars
    /\ [](Has(out, WarnConflict)
           => /\ argsRev = reqRev /\ reqRev # 0
              /\ mountImg # "sdk"
              /\ pc \in {"checkrev", "download"}
                   \/ package = PackageName(abi, api, reqRev))

C9_Witness ==
    /\ Has(out, WarnConflict) /\ Has(log, "urlopen") /\ Has(log, "mount")
    /\ mountImg = "dst"

\* C10: whenever main starts the mount/copy phase the image is present, its
\* revision is nonzero, equals args.rev and is the one in the output
\* directory name; a download/extract result without an image or with
\* another revision ends the run with status 1 before any mount
C10_MountedImageHasRequestedRevision ==
    /\ []((pc = "mount" \/ dst # NoDst)
           => /\ img \in {"sdk", "dst"}
              /\ rev # 0 /\ rev = argsRev
              /\ ver = Fmt02d(rev)
              /\ dst # NoDst => (dst.ver = Fmt02d(rev) /\ mountImg = img))
    /\ [][ (pc = "extcheck" /\ (img = "none" \/ rev # argsRev))
           => exit' = "exit1" ]_vars
    /\ [](exit = "exit1" => (dst = NoDst /\ ~Has(log, "mount")))

C10_Witness ==
    /\ pc = "mountrun" /\ mountImg = "dst" /\ Has(log, "zip.extract")
====
